---- MODULE Spec2Model ----
(***************************************************************************)
(* Model of tkcalendar's Calendar widget (src/tkcalendar/calendar_.py):    *)
(* the displayed month, the selected date, the 6x7 grid of day labels with *)
(* their styles, the week-number labels, the bound text variable and its   *)
(* write trace, and the handlers that change them.                         *)
(***************************************************************************)
EXTENDS Integers, Sequences, FiniteSets, TLC

(***************************************************************************)
(* Bounds of the explored calendar.                                        *)
(***************************************************************************)
\* strptime's two-digit-year pivot for "%y": 69..99 -> 19xx, 00..68 -> 20xx
Pivot == 69
\* number of consecutive years the navigation may display
YearSpan == 2
\* displayed months lie within MonthWindow months of a year's ends
MonthWindow == 1
\* number of consecutive years explored by the grid-only specification
GridSpan == 9
\* number of write traces on the variable beyond which configure is not explored
MaxTraces == 2
\* months the navigation may move away from the month of the selected date
NavReach == 1
\* the last year whose "%x" text parses back into 20xx, and the YearSpan years
\* after it, whose text parses back to themselves
MinYear == 1900 + Pivot - 1
MaxYear == MinYear + YearSpan
GridMaxYear == MinYear + GridSpan - 1

None == "None"

(***************************************************************************)
(* datetime.date arithmetic, as used through self.date / self.timedelta.   *)
(***************************************************************************)
IsLeap(y) == (y % 4 = 0) /\ ((y % 100 # 0) \/ (y % 400 = 0))

\* calendar.monthrange(year, month)[1]
DaysInMonth(y, m) ==
    IF m = 2 THEN (IF IsLeap(y) THEN 29 ELSE 28)
    ELSE IF m \in {4, 6, 9, 11} THEN 30 ELSE 31

\* self.date(year, month, day) raises ValueError unless this holds
ValidYMD(y, m, d) ==
    /\ y \in 1..9999
    /\ m \in 1..12
    /\ d \in 1..DaysInMonth(y, m)

RECURSIVE DaysBeforeMonth(_, _)
DaysBeforeMonth(y, m) ==
    IF m = 1 THEN 0 ELSE DaysBeforeMonth(y, m - 1) + DaysInMonth(y, m - 1)

DaysBeforeYear(y) ==
    LET p == y - 1 IN p * 365 + (p \div 4) - (p \div 100) + (p \div 400)

\* date.toordinal(): 1 for 0001-01-01
ToOrdinal(y, m, d) == DaysBeforeYear(y) + DaysBeforeMonth(y, m) + d

RECURSIVE MonthOfYearDay(_, _, _)
MonthOfYearDay(y, m, n) ==
    IF n <= DaysInMonth(y, m) THEN <<m, n>>
    ELSE MonthOfYearDay(y, m + 1, n - DaysInMonth(y, m))

\* date.fromordinal(n), returned as <<year, month, day>>
FromOrdinal(n) ==
    LET approx == ((n - 1) \div 366) + 1
        y == CHOOSE yy \in approx..(((n - 1) \div 365) + 1) :
                 DaysBeforeYear(yy) < n /\ n <= DaysBeforeYear(yy + 1)
        md == MonthOfYearDay(y, 1, n - DaysBeforeYear(y))
    IN  <<y, md[1], md[2]>>

\* date.weekday(): Monday is 0
Weekday(y, m, d) == (ToOrdinal(y, m, d) + 6) % 7

IsoWeek1Monday(y) ==
    LET firstday == ToOrdinal(y, 1, 1)
        firstweekday == (firstday + 6) % 7
        week1monday == firstday - firstweekday
    IN  IF firstweekday > 3 THEN week1monday + 7 ELSE week1monday

\* date.isocalendar(), returned as <<ISO year, ISO week, ISO weekday>>
IsoCalendar(y, m, d) ==
    LET today == ToOrdinal(y, m, d)
        w1 == IsoWeek1Monday(y)
        week == (today - w1) \div 7
        day == (today - w1) % 7
    IN  IF week < 0
        THEN LET w0 == IsoWeek1Monday(y - 1)
             IN  <<y - 1, ((today - w0) \div 7) + 1, ((today - w0) % 7) + 1>>
        ELSE IF week >= 52 /\ today >= IsoWeek1Monday(y + 1)
        THEN <<y + 1, 1, day + 1>>
        ELSE <<y, week + 1, day + 1>>


(***************************************************************************)
(* Values: dates, the text of the bound variable, errors.                  *)
(***************************************************************************)
\* a datetime.date (dt = FALSE) or datetime.datetime at midnight (dt = TRUE)
MkDate(y, m, d, isdt) == [year |-> y, month |-> m, day |-> d, dt |-> isdt]
\* self._sel_date = None
NoDate == MkDate(0, 0, 0, FALSE)

\* the text "mm/dd/yy" (pad = FALSE: written without leading zeros), the
\* empty text, or text that holds no date at all
MkText(m, d, yy, padded) == [kind |-> "mdy", m |-> m, d |-> d, y |-> yy, pad |-> padded]
EmptyText == [kind |-> "empty", m |-> 0, d |-> 0, y |-> 0, pad |-> TRUE]
JunkText == [kind |-> "junk", m |-> 0, d |-> 0, y |-> 0, pad |-> TRUE]

NoError == [type |-> "none", text |-> EmptyText]
MkError(t, txt) == [type |-> t, text |-> txt]

\* date.strftime("%x") in the default (C) LC_TIME locale: "%m/%d/%y"
strftime_x(date) == MkText(date.month, date.day, date.year % 100, TRUE)

\* the year strptime gives to a two-digit "%y"
PivotYear(yy) == IF yy >= Pivot THEN 1900 + yy ELSE 2000 + yy

\* whether strptime(text, "%x") succeeds
Parses(text) ==
    /\ text.kind = "mdy"
    /\ text.y \in 0..99
    /\ ValidYMD(PivotYear(text.y), text.m, text.d)

\* strptime(text, "%x"): a datetime.datetime
strptime_x(text) == MkDate(PivotYear(text.y), text.m, text.d, TRUE)

(***************************************************************************)
(* calendar.Calendar(MONDAY).monthdatescalendar and the 6 displayed rows.  *)
(***************************************************************************)
\* the date `off` days after the 1st of (y, m), for offsets that stay within
\* the previous, the current and the two following months
RECURSIVE DateAtOffset(_, _, _)
DateAtOffset(y, m, off) ==
    IF off < 0
    THEN LET py == IF m = 1 THEN y - 1 ELSE y
             pm == IF m = 1 THEN 12 ELSE m - 1
         IN  DateAtOffset(py, pm, off + DaysInMonth(py, pm))
    ELSE IF off >= DaysInMonth(y, m)
    THEN LET ny == IF m = 12 THEN y + 1 ELSE y
             nm == IF m = 12 THEN 1 ELSE m + 1
         IN  DateAtOffset(ny, nm, off - DaysInMonth(y, m))
    ELSE <<y, m, off + 1>>

\* number of weeks monthdatescalendar(y, m) returns
NbWeeks(y, m) == (Weekday(y, m, 1) + DaysInMonth(y, m) + 6) \div 7

\* monthdatescalendar(y, m): full weeks (Monday first) covering the month
WeeksFrom(y, m, first, n) ==
    [k \in 1..n |-> [j \in 1..7 |-> DateAtOffset(y, m, 7 * (k - 1) + (j - 1) - first)]]

MonthDatesCalendar(y, m) == WeeksFrom(y, m, Weekday(y, m, 1), NbWeeks(y, m))

\* the list `cal` of _display_calendar once completed to 6 rows
AppendRows(cal, nxt, i) ==
    IF Len(cal) < 5 THEN cal \o <<nxt[i + 1], nxt[i + 2]>>
    ELSE IF Len(cal) < 6 THEN Append(cal, nxt[i + 1])
    ELSE cal

\* a completion that always starts at the first week of the next month, as if
\* the last week of `cal` never ran into it
CompleteRowsFromFirstWeek(cal, nxt, m) == AppendRows(cal, nxt, 0)

CompleteRows(cal, nxt, m) ==
    AppendRows(cal, nxt, IF cal[Len(cal)][7][2] = m THEN 0 ELSE 1)

CalRows(y, m) ==
    CompleteRows(MonthDatesCalendar(y, m),
                 MonthDatesCalendar(IF m + 1 = 13 THEN y + 1 ELSE y,
                                    IF m + 1 = 13 THEN 1 ELSE m + 1),
                 m)

\* style suffix looked up in the `months` dictionary of _display_calendar
MonthSuffix(month, cellmonth) ==
    LET next_m == IF month + 1 = 13 THEN 1 ELSE month + 1
        prev_m == ((month - 2) % 12) + 1
    IN  IF cellmonth = prev_m \/ cellmonth = next_m THEN "_om"
        ELSE IF cellmonth = month THEN ""
        ELSE "KeyError"

\* style of a day label: week_days[i_day] + months[cell month]
DayStyle(j, suffix) ==
    IF j \in {5, 6}
    THEN (IF suffix = "" THEN "we" ELSE IF suffix = "_om" THEN "we_om" ELSE "KeyError")
    ELSE (IF suffix = "" THEN "normal" ELSE IF suffix = "_om" THEN "normal_om" ELSE "KeyError")

Max(a, b) == IF a >= b THEN a ELSE b

\* text of the week-number label of row i_week
WeekLabel(week_nb, i_week) == ((week_nb + i_week - 1) % Max(week_nb, 52)) + 1

Rows == 0..5
Cols == 0..6

(***************************************************************************)
(* The widget as a record, and the methods as functions on it.             *)
(***************************************************************************)
\* cell of the selected day computed by _display_selection/_remove_selection:
\* <<TRUE, row, column>> when a label is addressed, <<FALSE, 0, 0>> otherwise
\* a row computed modulo 52 in every year
SelRowModulo52(w, d, wn) ==
    IF (w - wn) % 52 < 6 THEN <<TRUE, (w - wn) % 52, d - 1>> ELSE <<FALSE, 0, 0>>

SelRow(w, d, wn) ==
    IF 0 <= (w - wn) % Max(52, wn) /\ (w - wn) % Max(52, wn) < 6
    THEN <<TRUE, (w - wn) % Max(52, wn), d - 1>>
    ELSE <<FALSE, 0, 0>>

SelCellOf(sel, date) ==
    IF sel = NoDate THEN <<FALSE, 0, 0>>
    ELSE IF sel.year # date.year THEN <<FALSE, 0, 0>>
    ELSE SelRow(IsoCalendar(sel.year, sel.month, sel.day)[2],
                IsoCalendar(sel.year, sel.month, sel.day)[3],
                IsoCalendar(date.year, date.month, date.day)[2])

SelCell(w) == SelCellOf(w._sel_date, w._date)

SetStyle(w, i, j, st) ==
    [w EXCEPT !._calendar[i][j].style = st]

HighlightAt(w, c) ==
    IF c[1] THEN SetStyle(w, c[2], c[3], "sel") ELSE w

display_selection(w) == HighlightAt(w, SelCell(w))

RestoreAt(w, c) ==
    IF c[1]
    THEN IF w._sel_date.month = w._date.month
         THEN SetStyle(w, c[2], c[3], IF c[3] + 1 < 6 THEN "normal" ELSE "we")
         ELSE SetStyle(w, c[2], c[3], IF c[3] + 1 < 6 THEN "normal_om" ELSE "we_om")
    ELSE w

remove_selection(w) == RestoreAt(w, SelCell(w))

ShowMonth(w, month, cal, week_nb) ==
    [w EXCEPT
        !._week_nbs = [i \in Rows |-> WeekLabel(week_nb, i)],
        !._calendar = [i \in Rows |-> [j \in Cols |->
            [text |-> cal[i + 1][j + 1][3],
             style |-> DayStyle(j, MonthSuffix(month, cal[i + 1][j + 1][2]))]]]]

display_calendar(w) ==
    display_selection(
        ShowMonth(w, w._date.month, CalRows(w._date.year, w._date.month),
                  IsoCalendar(w._date.year, w._date.month, w._date.day)[2]))

\* self.date.replace(day=1)
FirstOfMonth(date) == [date EXCEPT !.day = 1]

\* date + timedelta(days=n), keeping the operand's type
PlusDays(date, n) ==
    LET r == FromOrdinal(ToOrdinal(date.year, date.month, date.day) + n)
    IN  MkDate(r[1], r[2], r[3], date.dt)

\* a next month that always steps 30 days
next_month_thirty_days(w) ==
    display_calendar([w EXCEPT !._date = PlusDays(w._date, 30)])

next_month(w) ==
    display_calendar([w EXCEPT
        !._date = PlusDays(w._date, DaysInMonth(w._date.year, w._date.month))])

\* a previous month that steps back one day and keeps that day
prev_month_keep_day(w) ==
    display_calendar([w EXCEPT !._date = PlusDays(w._date, -1)])

prev_month(w) ==
    display_calendar([w EXCEPT !._date = FirstOfMonth(PlusDays(w._date, -1))])

next_year(w) ==
    display_calendar([w EXCEPT !._date = [w._date EXCEPT !.year = w._date.year + 1]])

prev_year(w) ==
    display_calendar([w EXCEPT !._date = [w._date EXCEPT !.year = w._date.year - 1]])

\* an exception that leaves a Tk callback is handed to report_callback_exception
Report(w, err) == [w EXCEPT !.reported = Append(w.reported, err)]

\* text the trace writes back after a failed parse
RestoredText(w) ==
    IF w._sel_date = NoDate THEN EmptyText ELSE strftime_x(w._sel_date)

\* one run of the write-trace callback; writes it makes do not fire traces again
textvariable_trace(w) ==
    IF w.selectmode = "day"
    THEN IF w._textvariable = None
         THEN Report(w, MkError("AttributeError", EmptyText))
         ELSE IF w.var = EmptyText
         THEN [remove_selection(w) EXCEPT !._sel_date = NoDate]
         ELSE IF ~Parses(w.var)
         THEN Report([w EXCEPT !.var = RestoredText(w)], MkError("ValueError", w.var))
         ELSE display_selection(display_calendar(
                  [w EXCEPT !._sel_date = strptime_x(w.var),
                            !._date = FirstOfMonth(strptime_x(w.var))]))
    ELSE w

\* StringVar.set(text) on the variable V: Tcl runs every write trace registered
\* on it, each seeing the value the previous one left
RECURSIVE RunTraces(_, _)
RunTraces(w, n) ==
    IF n = 0 THEN w ELSE RunTraces(textvariable_trace(w), n - 1)

\* set() called by a handler of the widget
WidgetWrite(w, text) ==
    RunTraces([w EXCEPT !.var = text, !.nested = w.nested \/ (w.traces > 0)], w.traces)

\* set() called from outside the widget
external_write(w, text) == RunTraces([w EXCEPT !.var = text], w.traces)

\* self.event_generate("<<CalendarSelected>>")
event_generate(w) ==
    [w EXCEPT !.events = Append(w.events, [sel |-> w._sel_date, var |-> w.var])]

\* if self._textvariable is not None: self._textvariable.set(strftime("%x"))
WriteSelection(w) ==
    IF w._textvariable # None THEN WidgetWrite(w, strftime_x(w._sel_date)) ELSE w

\* _on_click once the month is the one to select in: w is the widget after
\* _remove_selection, day the text of the clicked label
\* a selection that generates the event before the variable is written
SelectDayNotifyFirst(w, day) ==
    IF ~ValidYMD(w._date.year, w._date.month, day)
    THEN Report(w, MkError("ValueError", EmptyText))
    ELSE WriteSelection(event_generate(display_selection(
             [w EXCEPT !._sel_date = MkDate(w._date.year, w._date.month, day, FALSE)])))

SelectDay(w, day) ==
    IF ~ValidYMD(w._date.year, w._date.month, day)
    THEN Report(w, MkError("ValueError", EmptyText))
    ELSE event_generate(WriteSelection(display_selection(
             [w EXCEPT !._sel_date = MkDate(w._date.year, w._date.month, day, FALSE)])))

on_click(w, i, j) ==
    IF w.state = "normal"
    THEN SelectDay(remove_selection(
                       IF w._calendar[i][j].style \in {"normal_om", "we_om"}
                       THEN (IF i = 0 THEN prev_month(w) ELSE next_month(w))
                       ELSE w),
                   w._calendar[i][j].text)
    ELSE w

\* arguments of selection_set: None, a datetime.date, or a string
ArgNone == [kind |-> "none", date |-> NoDate, text |-> EmptyText]
ArgDate(d) == [kind |-> "date", date |-> d, text |-> EmptyText]
ArgStr(t) == [kind |-> "str", date |-> NoDate, text |-> t]

\* the end of selection_set: display the month of the selection
ShowSelection(w) ==
    display_selection(display_calendar([w EXCEPT !._date = FirstOfMonth(w._sel_date)]))

ClearSelection(w) ==
    IF w._textvariable # None THEN WidgetWrite(w, EmptyText) ELSE w

\* the body of selection_set, run when selectmode and state allow it
SetSelection(w, arg) ==
    IF arg.kind = "none"
    THEN ClearSelection([remove_selection(w) EXCEPT !._sel_date = NoDate])
    ELSE IF arg.kind = "str" /\ ~Parses(arg.text)
    THEN [w EXCEPT !.raised = MkError("ValueError", arg.text)]
    ELSE ShowSelection(WriteSelection(
             [w EXCEPT !._sel_date =
                 IF arg.kind = "date" THEN arg.date
                 ELSE [strptime_x(arg.text) EXCEPT !.dt = FALSE]]))

\* a selection_set that looks at selectmode only and forgets the state
selection_set_any_state(w, arg) ==
    IF w.selectmode = "day" THEN SetSelection(w, arg) ELSE w

selection_set(w, arg) ==
    IF w.selectmode = "day" /\ w.state = "normal" THEN SetSelection(w, arg) ELSE w

selection_get(w) == IF w.selectmode = "day" THEN w._sel_date ELSE NoDate

\* a get_date that looks at selectmode the way selection_get does
get_date_gated(w) ==
    IF w.selectmode = "day" /\ w._sel_date # NoDate THEN strftime_x(w._sel_date)
    ELSE EmptyText

get_date(w) == IF w._sel_date # NoDate THEN strftime_x(w._sel_date) ELSE EmptyText

\* self["selectmode"] = value, value "none" or "day": (un)binds <1> on the labels
setitem_selectmode(w, value) == [w EXCEPT !.selectmode = value]

\* self["state"] = value, value "normal" or "disabled"
setitem_state(w, value) == [w EXCEPT !.state = value]

\* self["textvariable"] = value, value None or the variable V
\* value.trace_add('write', self._textvariable_trace)
TraceAdd(w, value) ==
    IF value # None THEN [w EXCEPT !.traces = w.traces + 1, !.trace_id = "live"] ELSE w

\* self._textvariable.trace_remove('write', self._textvariable_trace_id)
TraceRemove(w) ==
    IF w._textvariable # None
    THEN [w EXCEPT !.traces = w.traces - 1, !.trace_id = "stale"]
    ELSE w

\* the try block of the textvariable branch, then self._textvariable = value
Rebind(w, value) ==
    IF w._textvariable # None /\ w.trace_id = "unset"
    THEN [w EXCEPT !.raised = MkError("AttributeError", EmptyText)]
    ELSE IF w._textvariable # None /\ w.trace_id = "stale"
    THEN [w EXCEPT !.raised = MkError("TclError", EmptyText)]
    ELSE [TraceAdd(TraceRemove(w), value) EXCEPT !._textvariable = value]

setitem_textvariable(w, value) ==
    IF w._sel_date # NoDate
    THEN Rebind(IF value # None THEN WidgetWrite(w, strftime_x(w._sel_date)) ELSE w, value)
    ELSE [w EXCEPT !._textvariable = value]

\* keyword arguments of Calendar(...): day = 0 stands for "no day given";
\* var0 is the text the variable holds before the widget is built
MkKw(y, m, d, mode, st, tv, v0) ==
    [year |-> y, month |-> m, day |-> d, selectmode |-> mode, state |-> st,
     textvariable |-> tv, var0 |-> v0]

\* an initial selection built from the day without asking whether it is one
InitialSelectionUnchecked(kw) ==
    IF kw.day # 0 THEN MkDate(kw.year, kw.month, kw.day, FALSE) ELSE NoDate

\* self._sel_date after the "date" section of __init__
InitialSelection(kw) ==
    IF kw.day # 0 /\ ValidYMD(kw.year, kw.month, kw.day)
    THEN MkDate(kw.year, kw.month, kw.day, FALSE)
    ELSE NoDate

\* Calendar.__init__
construct(kw) ==
    LET sel == InitialSelection(kw)
        w0 == [_date |-> MkDate(kw.year, kw.month, 1, FALSE),
               _sel_date |-> sel,
               _textvariable |-> kw.textvariable,
               var |-> IF kw.textvariable # None /\ sel # NoDate
                       THEN strftime_x(sel) ELSE kw.var0,
               traces |-> 0,
               trace_id |-> "unset",
               selectmode |-> kw.selectmode,
               state |-> kw.state,
               _calendar |-> [i \in Rows |-> [j \in Cols |-> [text |-> 0, style |-> "normal"]]],
               _week_nbs |-> [i \in Rows |-> 0],
               raised |-> NoError,
               reported |-> << >>,
               events |-> << >>,
               nested |-> FALSE]
        w1 == display_calendar(w0)
    IN  IF kw.textvariable # None
        THEN [w1 EXCEPT !.traces = 1, !.trace_id = "live"]
        ELSE w1

(***************************************************************************)
(* State of one Calendar and of the variable V it may be bound to.         *)
(***************************************************************************)
VARIABLES
    _date,          \* self._date: first day of the displayed month
    _sel_date,      \* self._sel_date: selected day, or NoDate
    _textvariable,  \* self._textvariable: None or "V"
    var,            \* text held by the StringVar V
    traces,         \* number of write traces the widget has registered on V
    trace_id,       \* self._textvariable_trace_id: "unset", "live" or "stale"
    selectmode,     \* self._properties["selectmode"]
    state,          \* self._properties["state"]
    _calendar,      \* self._calendar: text and style of the 6x7 day labels
    _week_nbs,      \* self._week_nbs: text of the 6 week-number labels
    op,             \* name of the last operation
    raised,         \* exception the last operation raised to its caller
    reported,       \* exceptions that left a Tk callback during the last operation
    events,         \* <<CalendarSelected>> events generated by the last operation
    nested          \* the write trace ran inside another handler of the last operation

vars == <<_date, _sel_date, _textvariable, var, traces, trace_id, selectmode, state,
          _calendar, _week_nbs, op, raised, reported, events, nested>>

\* the widget as the methods see it when a new operation starts
Self ==
    [_date |-> _date, _sel_date |-> _sel_date, _textvariable |-> _textvariable,
     var |-> var, traces |-> traces, trace_id |-> trace_id,
     selectmode |-> selectmode, state |-> state,
     _calendar |-> _calendar, _week_nbs |-> _week_nbs,
     raised |-> NoError, reported |-> << >>, events |-> << >>, nested |-> FALSE]

Commit(w, name) ==
    /\ _date' = w._date
    /\ _sel_date' = w._sel_date
    /\ _textvariable' = w._textvariable
    /\ var' = w.var
    /\ traces' = w.traces
    /\ trace_id' = w.trace_id
    /\ selectmode' = w.selectmode
    /\ state' = w.state
    /\ _calendar' = w._calendar
    /\ _week_nbs' = w._week_nbs
    /\ op' = name
    /\ raised' = w.raised
    /\ reported' = w.reported
    /\ events' = w.events
    /\ nested' = w.nested

\* inputs the operations are tried with
SetDates ==
    {MkDate(MinYear, 12, 30, FALSE), MkDate(MinYear + 1, 1, 30, FALSE),
     MkDate(MinYear + 1, 2, 5, FALSE)}
GoodTexts == {MkText(1, 30, Pivot, TRUE), MkText(2, 5, Pivot, FALSE), MkText(12, 30, Pivot - 1, TRUE)}
BadTexts == {JunkText, MkText(2, 30, Pivot, TRUE)}
SetArgs ==
    {ArgNone} \cup {ArgDate(d) : d \in SetDates}
              \cup {ArgStr(t) : t \in {MkText(1, 30, Pivot, TRUE), MkText(2, 30, Pivot, TRUE)}}
WriteTexts == {EmptyText} \cup GoodTexts \cup BadTexts

\* the months navigation and clicks may lead to: years lo..hi, months within mw of a year's end
InWindow(date, lo, hi, mw) ==
    /\ date.year \in lo..hi
    /\ (date.month <= mw \/ date.month > 12 - mw)

\* the same months, and those their "%x" text parses back to
InHorizon(date, lo, hi, mw) ==
    \/ InWindow(date, lo, hi, mw)
    \/ \E y \in lo..hi : InWindow([date EXCEPT !.year = y], lo, hi, mw)
                         /\ date.year = PivotYear(y % 100)

WindowMonths(mw) == {m \in 1..12 : m <= mw \/ m > 12 - mw}

InitWith(years, months, days, modes, states, tvs, texts) ==
    \E y \in years, m \in months, d \in days, mode \in modes, st \in states,
       tv \in tvs, v0 \in texts :
        \E w \in {construct(MkKw(y, m, d, mode, st, tv, v0))} :
        /\ _date = w._date
        /\ _sel_date = w._sel_date
        /\ _textvariable = w._textvariable
        /\ var = w.var
        /\ traces = w.traces
        /\ trace_id = w.trace_id
        /\ selectmode = w.selectmode
        /\ state = w.state
        /\ _calendar = w._calendar
        /\ _week_nbs = w._week_nbs
        /\ op = (IF d # 0 /\ ~ValidYMD(y, m, d) THEN "init_badday" ELSE "init")
        /\ raised = w.raised
        /\ reported = w.reported
        /\ events = w.events
        /\ nested = w.nested

\* the month buttons and the year buttons invoke their command unless disabled
NextMonth(lo, hi, mw) ==
    /\ state = "normal"
    /\ \E w \in {next_month(Self)} :
        /\ InWindow(w._date, lo, hi, mw)
        /\ Commit(w, "next_month")

PrevMonth(lo, hi, mw) ==
    /\ state = "normal"
    /\ \E w \in {prev_month(Self)} :
        /\ InWindow(w._date, lo, hi, mw)
        /\ Commit(w, "prev_month")

NextYear(lo, hi, mw) ==
    /\ state = "normal"
    /\ \E w \in {next_year(Self)} :
        /\ InWindow(w._date, lo, hi, mw)
        /\ Commit(w, "next_year")

PrevYear(lo, hi, mw) ==
    /\ state = "normal"
    /\ \E w \in {prev_year(Self)} :
        /\ InWindow(w._date, lo, hi, mw)
        /\ Commit(w, "prev_year")

\* <1> on a day label; the labels are bound while selectmode is "day"
Click(lo, hi, mw) ==
    /\ selectmode = "day"
    /\ InWindow(_date, lo, hi, mw)
    /\ \E i \in Rows, j \in Cols :
        \E w \in {on_click(Self, i, j)} :
        /\ InHorizon(w._date, lo, hi, mw)
        /\ Commit(w, "click")

SelectionSet ==
    \E arg \in SetArgs : \E w \in {selection_set(Self, arg)} : Commit(w, "selection_set")

\* a write to V from outside; V concerns the widget while bound or traced
ExternalWrite ==
    /\ _textvariable # None \/ traces > 0
    /\ \E t \in WriteTexts : \E w \in {external_write(Self, t)} : Commit(w, "write")

ConfigureSelectmode ==
    \E v \in {"none", "day"} :
        \E w \in {setitem_selectmode(Self, v)} : Commit(w, "configure")

ConfigureState ==
    \E v \in {"normal", "disabled"} :
        \E w \in {setitem_state(Self, v)} : Commit(w, "configure")

ConfigureTextvariable ==
    \E v \in {None, "V"} :
        \E w \in {setitem_textvariable(Self, v)} :
        /\ w.traces <= MaxTraces
        /\ Commit(w, "configure")

(***************************************************************************)
(* Specifications.                                                         *)
(***************************************************************************)
\* selection and navigation with the default options, with or without a
\* variable bound at construction
Init ==
    InitWith((MinYear + 1)..MaxYear, WindowMonths(MonthWindow), {0, 15, 30}, {"day"}, {"normal"},
             {None, "V"}, {EmptyText})

Next ==
    \/ NextMonth(MinYear + 1, MaxYear, MonthWindow)
    \/ PrevMonth(MinYear + 1, MaxYear, MonthWindow)
    \/ NextYear(MinYear + 1, MaxYear, MonthWindow)
    \/ PrevYear(MinYear + 1, MaxYear, MonthWindow)
    \/ Click(MinYear + 1, MaxYear, MonthWindow)
    \/ SelectionSet
    \/ ExternalWrite

Spec == Init /\ [][Next]_vars

\* the grid alone: every month of GridSpan years, reached by navigation
GridInit ==
    InitWith(MinYear..GridMaxYear, 1..12, {0}, {"day"}, {"normal"}, {None}, {EmptyText})

GridNext ==
    \/ NextMonth(MinYear, GridMaxYear, 6)
    \/ PrevMonth(MinYear, GridMaxYear, 6)
    \/ NextYear(MinYear, GridMaxYear, 6)
    \/ PrevYear(MinYear, GridMaxYear, 6)

GridSpec == GridInit /\ [][GridNext]_vars

\* the options: selectmode, state and textvariable set at construction or
\* changed by configure
CfgInit ==
    InitWith({MinYear + 1}, {1}, {0, 15}, {"none", "day"}, {"normal", "disabled"},
             {None, "V"}, {EmptyText, JunkText})

CfgNext ==
    \/ NextYear(MinYear, MinYear + 1, 1)
    \/ PrevYear(MinYear, MinYear + 1, 1)
    \/ SelectionSet
    \/ ExternalWrite
    \/ ConfigureSelectmode
    \/ ConfigureState
    \/ ConfigureTextvariable

CfgSpec == CfgInit /\ [][CfgNext]_vars

\* navigation around a date selected at construction: every month of GridSpan
\* years, with a first, a late or no day given (the 30th is no day of
\* February), the displayed month staying within NavReach months of the
\* selected one
MonthIndex(date) == 12 * date.year + date.month

NearSelection ==
    \/ _sel_date = NoDate
    \/ /\ MonthIndex(_date) - MonthIndex(_sel_date) <= NavReach
       /\ MonthIndex(_sel_date) - MonthIndex(_date) <= NavReach

NavInit ==
    InitWith(MinYear..GridMaxYear, 1..12, {0, 1, 30}, {"day"}, {"normal"},
             {None, "V"}, {JunkText})

NavNext ==
    \/ NextMonth(MinYear, GridMaxYear, 6) /\ NearSelection'
    \/ PrevMonth(MinYear, GridMaxYear, 6) /\ NearSelection'
    \/ NextYear(MinYear, GridMaxYear, 6) /\ NearSelection'
    \/ PrevYear(MinYear, GridMaxYear, 6) /\ NearSelection'

NavSpec == NavInit /\ [][NavNext]_vars

\* clicks and the other sources of a selection, on a widget that may be
\* disabled and enabled again
EvtInit ==
    InitWith({MinYear + 1}, {1}, {0, 15}, {"day"}, {"normal", "disabled"},
             {None, "V"}, {EmptyText})

EvtNext ==
    \/ Click(MinYear + 1, MinYear + 1, 1)
    \/ NextMonth(MinYear + 1, MinYear + 1, 2)
    \/ PrevMonth(MinYear + 1, MinYear + 1, 2)
    \/ SelectionSet
    \/ ExternalWrite
    \/ ConfigureState

EvtSpec == EvtInit /\ [][EvtNext]_vars

(***************************************************************************)
(* Properties.                                                             *)
(***************************************************************************)
\* the date a 6x7 month grid starting on the Monday on or before the 1st of the
\* displayed month shows at row i, column j
GridDate(i, j) ==
    FromOrdinal(ToOrdinal(_date.year, _date.month, 1)
                - Weekday(_date.year, _date.month, 1) + 7 * i + j)

YMD(date) == <<date.year, date.month, date.day>>

Highlighted == {c \in Rows \X Cols : _calendar[c[1]][c[2]].style = "sel"}

\* C1: for every displayed (year, month) the grid has 6 rows of 7 cells holding
\* 42 consecutive dates in row-major order, row 0 column 0 is a Monday on or
\* before the 1st of the month, and every day of the month is in exactly one cell
C1_GridCoversMonth ==
    LET cal == CalRows(_date.year, _date.month) IN
    /\ Len(cal) = 6
    /\ DOMAIN _calendar = Rows
    /\ \A i \in Rows :
        /\ Len(cal[i + 1]) = 7
        /\ DOMAIN _calendar[i] = Cols
        /\ \A j \in Cols :
            /\ cal[i + 1][j + 1] = GridDate(i, j)
            /\ _calendar[i][j].text = GridDate(i, j)[3]
            /\ (_calendar[i][j].style \in {"normal", "we"}) = (GridDate(i, j)[2] = _date.month)
    /\ Weekday(cal[1][1][1], cal[1][1][2], cal[1][1][3]) = 0
    /\ ToOrdinal(cal[1][1][1], cal[1][1][2], cal[1][1][3])
           <= ToOrdinal(_date.year, _date.month, 1)
    /\ \A d \in 1..DaysInMonth(_date.year, _date.month) :
        Cardinality({c \in Rows \X Cols :
            cal[c[1] + 1][c[2] + 1] = <<_date.year, _date.month, d>>}) = 1

\* C1 witness: a February of exactly 4 weeks, completed by two rows of March
C1_Witness ==
    /\ _date.month = 2
    /\ NbWeeks(_date.year, 2) = 4
    /\ _calendar[3][6].text = 28
    /\ _calendar[4][0] = [text |-> 1, style |-> "normal_om"]
    /\ _calendar[5][6] = [text |-> 14, style |-> "we_om"]

\* C3: the week-number label of each row is the ISO 8601 week number of the
\* dates shown in that row
C3_WeekLabelsAreIso ==
    \A i \in Rows :
        _week_nbs[i] = IsoCalendar(GridDate(i, 0)[1], GridDate(i, 0)[2], GridDate(i, 0)[3])[2]

\* C2: a highlighted cell shows SelectedDate, and a cell is highlighted exactly
\* when SelectedDate is in the displayed year and in one of the 6 displayed rows
C2_HighlightIsSelection ==
    /\ \A c \in Highlighted : _sel_date # NoDate /\ GridDate(c[1], c[2]) = YMD(_sel_date)
    /\ (Highlighted # {}) =
           (/\ _sel_date # NoDate
            /\ _sel_date.year = _date.year
            /\ \E c \in Rows \X Cols : GridDate(c[1], c[2]) = YMD(_sel_date))

YM(date) == <<date.year, date.month>>

HighlightedIn(w) == {c \in Rows \X Cols : w._calendar[c[1]][c[2]].style = "sel"}

NoException(w) == w.raised = NoError /\ w.reported = << >>

\* C4: with state 'normal' and selectmode 'day', a click on any of the 42 cells
\* raises nothing and sets SelectedDate to the date the cell displays; the
\* displayed month is unchanged for a cell of the current month and becomes the
\* month of the date for an overflow cell, also when the cell is highlighted
C4_ClickSelectsCellDate ==
    (state = "normal" /\ selectmode = "day") =>
        \A i \in Rows, j \in Cols : \A w \in {on_click(Self, i, j)} :
            /\ NoException(w)
            /\ YMD(w._sel_date) = GridDate(i, j)
            /\ YM(w._date) = <<GridDate(i, j)[1], GridDate(i, j)[2]>>

\* C5: with selectmode 'day' and state 'normal', after selection_set(d),
\* selection_get() returns d and the displayed month is that of d; after
\* selection_set(None), selection_get() returns None and the displayed month
\* is unchanged
C5_SelectionSetThenGet ==
    (state = "normal" /\ selectmode = "day") =>
        /\ \A d \in SetDates : \A w \in {selection_set(Self, ArgDate(d))} :
            /\ YMD(selection_get(w)) = YMD(d)
            /\ YM(w._date) = YM(d)
        /\ \A w \in {selection_set(Self, ArgNone)} :
            /\ selection_get(w) = NoDate
            /\ YM(w._date) = YM(_date)

\* C6: while a variable is bound, its text is the "%x" format of SelectedDate,
\* and the empty text when SelectedDate is none
C6_VariableMirrorsSelection ==
    _textvariable = "V" =>
        var = (IF _sel_date = NoDate THEN EmptyText ELSE strftime_x(_sel_date))

\* C7: a write of valid date text to the bound variable sets SelectedDate to
\* the parsed date and the displayed month to its month; a write of the empty
\* text sets SelectedDate to none
C7_ExternalWriteSelects ==
    (_textvariable = "V" /\ selectmode = "day") =>
        /\ \A t \in GoodTexts : \A w \in {external_write(Self, t)} :
            /\ YMD(w._sel_date) = YMD(strptime_x(t))
            /\ YM(w._date) = YM(strptime_x(t))
        /\ \A w \in {external_write(Self, EmptyText)} : w._sel_date = NoDate

\* C8: unparseable text given to selection_set or written to the bound variable
\* signals an invalid-date error naming the text and leaves SelectedDate as it
\* was; after the failed write the variable holds the format of that
\* SelectedDate, or the empty text
C8_BadTextRejected ==
    (state = "normal" /\ selectmode = "day") =>
        \A t \in BadTexts :
            /\ \A w \in {selection_set(Self, ArgStr(t))} :
                /\ w.raised = MkError("ValueError", t)
                /\ w._sel_date = _sel_date
            /\ _textvariable = "V" =>
                \A w \in {external_write(Self, t)} :
                    /\ \E k \in DOMAIN w.reported : w.reported[k] = MkError("ValueError", t)
                    /\ w._sel_date = _sel_date
                    /\ w.var = (IF _sel_date = NoDate THEN EmptyText
                                ELSE strftime_x(_sel_date))

\* C9: a failed parse (selection_set with a string, or a write to the bound
\* variable) leaves the displayed month and the highlighted cells as they were
C9_FailedParseChangesNothing ==
    (state = "normal" /\ selectmode = "day") =>
        \A t \in BadTexts :
            /\ \A w \in {selection_set(Self, ArgStr(t))} :
                YM(w._date) = YM(_date) /\ HighlightedIn(w) = Highlighted
            /\ _textvariable = "V" =>
                \A w \in {external_write(Self, t)} :
                    YM(w._date) = YM(_date) /\ HighlightedIn(w) = Highlighted

\* C10: whenever selectmode is 'none', selection_get() returns None and
\* get_date() returns the empty string
C10_AccessorsGated ==
    selectmode = "none" => (selection_get(Self) = NoDate /\ get_date(Self) = EmptyText)

\* C10 amended: whenever selectmode is 'none', selection_get() returns None;
\* get_date() is not gated and returns the "%x" format of the stored
\* SelectedDate, the empty string only when none is stored
C10_OnlySelectionGetGated ==
    selectmode = "none" =>
        /\ selection_get(Self) = NoDate
        /\ (get_date(Self) = EmptyText) = (_sel_date = NoDate)
        /\ _sel_date # NoDate => get_date(Self) = strftime_x(_sel_date)

\* C11: while selectmode is 'none' or state is 'disabled', selection_set(x)
\* raises nothing and changes nothing (SelectedDate, displayed month, text of
\* the variable, labels), for x a date, valid text, invalid text or None
C11_SelectionSetIsNoOp ==
    (selectmode = "none" \/ state = "disabled") =>
        \A arg \in SetArgs : selection_set(Self, arg) = Self

\* C11 witness: selection_set was called on a disabled or mode-'none' widget
\* that holds a highlighted selection and is bound to the variable
C11_Witness ==
    /\ op = "selection_set"
    /\ selectmode = "none" \/ state = "disabled"
    /\ _sel_date # NoDate
    /\ Highlighted # {}
    /\ _textvariable = "V"

\* what a <<CalendarSelected>> handler sees: the selection and the variable's text
Snapshot(w) == [sel |-> w._sel_date, var |-> w.var]

\* C12: a click with state 'normal' and selectmode 'day' that selects a day
\* generates <<CalendarSelected>> exactly once, after SelectedDate (the day of
\* the clicked label) and the bound variable (its "%x" text) were updated; a
\* click on a disabled widget, selection_set, a write to the variable and the
\* navigation generate none
C12_EventOncePerClick ==
    /\ events # << >> => op = "click"
    /\ \A i \in Rows, j \in Cols : \A w \in {on_click(Self, i, j)} :
        IF state = "normal" /\ selectmode = "day"
        THEN /\ Len(w.events) = (IF NoException(w) THEN 1 ELSE 0)
             /\ NoException(w) =>
                 /\ w.events[1] = Snapshot(w)
                 /\ w.events[1].sel # NoDate
                 /\ w.events[1].sel.day = _calendar[i][j].text
                 /\ _textvariable # None => w.events[1].var = strftime_x(w.events[1].sel)
        ELSE w.events = << >>
    /\ \A arg \in SetArgs : selection_set(Self, arg).events = << >>
    /\ \A t \in WriteTexts : external_write(Self, t).events = << >>
    /\ next_month(Self).events = << >> /\ prev_month(Self).events = << >>
    /\ next_year(Self).events = << >> /\ prev_year(Self).events = << >>

\* C12 witness: a click selected a day and wrote it to the bound variable
\* before the event was generated
C12_Witness ==
    /\ op = "click"
    /\ Len(events) = 1
    /\ _textvariable = "V"
    /\ events[1] = [sel |-> _sel_date, var |-> var]
    /\ var # EmptyText

\* the first day of the month after that of `date`
FollowingMonth(date) ==
    IF date.month = 12 THEN <<date.year + 1, 1, 1>> ELSE <<date.year, date.month + 1, 1>>

\* C13: _next_month moves the displayed month to the first day of the
\* following month (December to January of the next year, whatever the length
\* of the month), and _prev_month after it returns to the original month
C13_NextThenPrevMonth ==
    \A w \in {next_month(Self)} :
        /\ YMD(w._date) = FollowingMonth(_date)
        /\ prev_month(w)._date = _date

\* C13 witness: _prev_month came back to the February of a leap year, and
\* _next_month leads from it to the 1st of March
C13_Witness ==
    /\ op = "prev_month"
    /\ _date.month = 2
    /\ IsLeap(_date.year)
    /\ YMD(next_month(Self)._date) = <<_date.year, 3, 1>>

\* the first day of the month before that of `date`
PrecedingMonth(date) ==
    IF date.month = 1 THEN <<date.year - 1, 12, 1>> ELSE <<date.year, date.month - 1, 1>>

\* a label of the first row, one of the middle and one of the last row: a
\* click on them takes the three branches of _on_click
CornerCells == {<<0, 0>>, <<2, 3>>, <<5, 6>>}

\* what navigation must leave alone
SameSelection(w) == w._sel_date = _sel_date /\ w.var = var

\* C14: _next_month, _prev_month, _next_year and _prev_year leave SelectedDate
\* and the variable's text unchanged and move the displayed month by one month
\* or by one year (same month); the day stored in _date is 1 in every state,
\* and stays 1 through navigation, selection_set, clicks and writes
C14_NavigationKeepsSelection ==
    /\ _date.day = 1
    /\ \A w \in {next_month(Self)} : SameSelection(w) /\ YMD(w._date) = FollowingMonth(_date)
    /\ \A w \in {prev_month(Self)} : SameSelection(w) /\ YMD(w._date) = PrecedingMonth(_date)
    /\ \A w \in {next_year(Self)} :
        SameSelection(w) /\ YMD(w._date) = <<_date.year + 1, _date.month, 1>>
    /\ \A w \in {prev_year(Self)} :
        SameSelection(w) /\ YMD(w._date) = <<_date.year - 1, _date.month, 1>>
    /\ \A arg \in SetArgs : selection_set(Self, arg)._date.day = 1
    /\ \A t \in WriteTexts : external_write(Self, t)._date.day = 1
    /\ \A c \in CornerCells : on_click(Self, c[1], c[2])._date.day = 1

\* C14 witness: navigation moved away from the month of a selection that is
\* written in the bound variable
C14_Witness ==
    /\ op \in {"next_month", "prev_month"}
    /\ _sel_date # NoDate
    /\ _textvariable = "V"
    /\ var = strftime_x(_sel_date)
    /\ YM(_date) # YM(_sel_date)

\* days that some months do not have
LateDays == 29..31

\* C15: Calendar(year, month, day) with a day the month does not have raises
\* nothing, leaves SelectedDate none and no label highlighted, does not write
\* the variable, and displays (year, month)
C15_InvalidDayIsCleared ==
    /\ op = "init_badday" =>
           (_sel_date = NoDate /\ Highlighted = {} /\ raised = NoError /\ reported = << >>)
    /\ \A d \in LateDays, tv \in {None, "V"}, v0 \in {EmptyText, JunkText} :
        ~ValidYMD(_date.year, _date.month, d) =>
            \A w \in {construct(MkKw(_date.year, _date.month, d, "day", "normal", tv, v0))} :
                /\ NoException(w)
                /\ w._sel_date = NoDate
                /\ HighlightedIn(w) = {}
                /\ w.var = v0
                /\ YMD(w._date) = <<_date.year, _date.month, 1>>

\* C15 witness: a calendar built for the 30th of a February, bound to a
\* variable that keeps the text it held
C15_Witness ==
    /\ op = "init_badday"
    /\ _date.month = 2
    /\ _sel_date = NoDate
    /\ _textvariable = "V"
    /\ var = JunkText

\* C16: no handler of the widget starts while another one is running: the
\* write trace of the variable never runs inside a click or a selection_set
\* that writes the variable
C16_NoNestedHandler == ~nested

\* row and column of the day `day` of the month displayed by w, in a grid
\* whose first label is the Monday on or before the 1st of the month
CellOfDay(w, day) ==
    <<(Weekday(w._date.year, w._date.month, 1) + day - 1) \div 7,
      (Weekday(w._date.year, w._date.month, 1) + day - 1) % 7>>

InDisplayedMonth(w) == w._sel_date # NoDate /\ YM(w._sel_date) = YM(w._date)

OneHighlightOnSelection(w) ==
    /\ Cardinality(HighlightedIn(w)) = 1
    /\ HighlightedIn(w) = {CellOfDay(w, w._sel_date.day)}
    /\ \A c \in HighlightedIn(w) : w._calendar[c[1]][c[2]].text = w._sel_date.day

\* C17: whenever SelectedDate lies in the displayed month, exactly one label is
\* highlighted, the one of the displayed month that shows SelectedDate's day:
\* in every state, and after selection_set of any day of the displayed month
\* on a calendar as it was built
C17_SelectionInMonthHighlighted ==
    /\ InDisplayedMonth(Self) => OneHighlightOnSelection(Self)
    /\ op \in {"init", "init_badday"} =>
        \A d \in 1..DaysInMonth(_date.year, _date.month) :
            \A w \in {selection_set(Self, ArgDate(MkDate(_date.year, _date.month, d, FALSE)))} :
                InDisplayedMonth(w) /\ OneHighlightOnSelection(w)

\* C17 witness: a January whose first day is in ISO week 52 or 53 of the year
\* before, or a December whose 30th is in ISO week 1 or 53, displayed again
\* after navigation with its selected day highlighted
C17_Witness ==
    /\ op \in {"next_month", "prev_month"}
    /\ InDisplayedMonth(Self)
    /\ Highlighted # {}
    /\ \/ _date.month = 1 /\ _sel_date.day = 1 /\ _week_nbs[0] \in {52, 53}
       \/ /\ _date.month = 12 /\ _sel_date.day = 30
          /\ IsoCalendar(_sel_date.year, 12, 30)[2] \in {1, 53}

\* the style _display_calendar gives the label at row i, column j
FreshStyle(i, j) == DayStyle(j, MonthSuffix(_date.month, GridDate(i, j)[2]))

\* C18: at most one label carries the selected style, none does while
\* SelectedDate is none, and every other label carries the style of its own
\* date: weekend for columns 5 and 6, other-month when its month is not the
\* displayed one
C18_StylesFollowDates ==
    /\ Cardinality(Highlighted) <= 1
    /\ _sel_date = NoDate => Highlighted = {}
    /\ \A c \in (Rows \X Cols) \ Highlighted :
        _calendar[c[1]][c[2]].style = FreshStyle(c[1], c[2])

\* C10 witness: selectmode was set to 'none' while a date is stored
C10_Witness ==
    /\ selectmode = "none"
    /\ op = "configure"
    /\ _sel_date # NoDate
    /\ selection_get(Self) = NoDate
    /\ get_date(Self) # EmptyText
====
